---- MODULE Spec2Model ----
(***************************************************************************)
(* A model of moz_sql_parser/sql_parser.py: the pyparsing grammar that     *)
(* turns a SQL SELECT statement into nested {op: params} values.           *)
(*                                                                         *)
(* The input of the grammar is modelled as a sequence of lexical tokens    *)
(* (strings); whitespace and comments are already skipped.  A parser       *)
(* element applied at position p of input s yields                         *)
(*     [ok |-> BOOLEAN, pos |-> next position, toks |-> token list]        *)
(* which is pyparsing's (loc, ParseResults) or a ParseException.           *)
(* pyparsing's combinators are ordered choice (MatchFirst, "|"), sequence  *)
(* (And, "+"), Optional, ZeroOrMore and Group; they never backtrack into   *)
(* an element that has succeeded.                                          *)
(***************************************************************************)
EXTENDS Integers, Sequences, FiniteSets, TLC

VARIABLES input, result, pc, val, un, cache, thr

vars == <<input, result, pc, val, un, cache, thr>>

(***************************************************************************)
(* Lexical tables                                                          *)
(***************************************************************************)

\* sql_parser.py:24
keywords == <<"select", "from", "where", "group by", "order by", "having", "with", "as", "desc", "case", "when", "then", "else", "end", "on", "cross join", "inner join", "join">>

\* KNOWN_OPS with the entry of "+" moved before the entry of "*"
KNOWN_OPS_AddFirst == <<
    [op |-> "+",   name |-> "add",  type |-> "Literal"],
    [op |-> "*",   name |-> "mult", type |-> "Literal"],
    [op |-> "/",   name |-> "div",  type |-> "Literal"],
    [op |-> "-",   name |-> "sub",  type |-> "Literal"],
    [op |-> "=",   name |-> "eq",   type |-> "Literal"],
    [op |-> "==",  name |-> "eq",   type |-> "Literal"],
    [op |-> "!=",  name |-> "neq",  type |-> "Literal"],
    [op |-> "<>",  name |-> "neq",  type |-> "Literal"],
    [op |-> ">",   name |-> "gt",   type |-> "Literal"],
    [op |-> "<",   name |-> "lt",   type |-> "Literal"],
    [op |-> ">=",  name |-> "gte",  type |-> "Literal"],
    [op |-> "<=",  name |-> "lte",  type |-> "Literal"],
    [op |-> "in",  name |-> "in",   type |-> "Keyword"],
    [op |-> "and", name |-> "and",  type |-> "Keyword"],
    [op |-> "or",  name |-> "or",   type |-> "Keyword"] >>

\* sql_parser.py:26-42; type is the pyparsing class that matches the operator
KNOWN_OPS == <<
    [op |-> "*",   name |-> "mult", type |-> "Literal"],
    [op |-> "/",   name |-> "div",  type |-> "Literal"],
    [op |-> "+",   name |-> "add",  type |-> "Literal"],
    [op |-> "-",   name |-> "sub",  type |-> "Literal"],
    [op |-> "=",   name |-> "eq",   type |-> "Literal"],
    [op |-> "==",  name |-> "eq",   type |-> "Literal"],
    [op |-> "!=",  name |-> "neq",  type |-> "Literal"],
    [op |-> "<>",  name |-> "neq",  type |-> "Literal"],
    [op |-> ">",   name |-> "gt",   type |-> "Literal"],
    [op |-> "<",   name |-> "lt",   type |-> "Literal"],
    [op |-> ">=",  name |-> "gte",  type |-> "Literal"],
    [op |-> "<=",  name |-> "lte",  type |-> "Literal"],
    [op |-> "in",  name |-> "in",   type |-> "Keyword"],
    [op |-> "and", name |-> "and",  type |-> "Keyword"],
    [op |-> "or",  name |-> "or",   type |-> "Keyword"] >>

\* The words of the token alphabet that have letters, each with the value of
\* Python's str.upper() and str.lower() on it.  Tokens without letters (and the
\* single-letter lower-case names not listed) are handled by upper/lower below.
CaseTable == {
    <<"select", "SELECT", "select">>, <<"SELECT", "SELECT", "select">>,
    <<"from", "FROM", "from">>, <<"FROM", "FROM", "from">>, <<"From", "FROM", "from">>,
    <<"where", "WHERE", "where">>, <<"WHERE", "WHERE", "where">>,
    <<"group by", "GROUP BY", "group by">>, <<"order by", "ORDER BY", "order by">>,
    <<"ORDER BY", "ORDER BY", "order by">>,
    <<"having", "HAVING", "having">>, <<"with", "WITH", "with">>,
    <<"as", "AS", "as">>, <<"AS", "AS", "as">>, <<"desc", "DESC", "desc">>,
    <<"case", "CASE", "case">>, <<"when", "WHEN", "when">>, <<"then", "THEN", "then">>,
    <<"else", "ELSE", "else">>, <<"end", "END", "end">>, <<"End", "END", "end">>,
    <<"on", "ON", "on">>, <<"cross join", "CROSS JOIN", "cross join">>,
    <<"inner join", "INNER JOIN", "inner join">>, <<"join", "JOIN", "join">>,
    <<"in", "IN", "in">>, <<"IN", "IN", "in">>,
    <<"and", "AND", "and">>, <<"AND", "AND", "and">>, <<"And", "AND", "and">>,
    <<"or", "OR", "or">>, <<"OR", "OR", "or">>,
    <<"not", "NOT", "not">>, <<"NOT", "NOT", "not">>,
    <<"distinct", "DISTINCT", "distinct">>, <<"DISTINCT", "DISTINCT", "distinct">>,
    <<"f", "F", "f">>, <<"F", "F", "f">>, <<"neg", "NEG", "neg">>,
    <<"a", "A", "a">>, <<"b", "B", "b">>, <<"c", "C", "c">>, <<"d", "D", "d">>,
    <<"t", "T", "t">>, <<"u", "U", "u">>, <<"t1", "T1", "t1">> }

\* str.upper(), used by Keyword(k, caseless=True)
upper(t) == IF \E e \in CaseTable : e[1] = t THEN (CHOOSE e \in CaseTable : e[1] = t)[2] ELSE t

\* str.lower(), used by to_json_call
lower(t) == IF \E e \in CaseTable : e[1] = t THEN (CHOOSE e \in CaseTable : e[1] = t)[3] ELSE t

\* Word(alphas): a run of letters
AlphaWords == {e[1] : e \in {x \in CaseTable : x[1] \notin {"group by", "order by", "cross join", "inner join", "t1"}}}

\* Word(alphas, alphanums + "_$"): a letter, then letters, digits, "_" or "$"
IdentWords == AlphaWords \cup {"t1"}

\* identString tokens (sql_parser.py:128), each with the text unquote gives for it
QuotedIdents == {<<"\"from\"", "from">>, <<"\"and\"", "and">>, <<"\"a\"", "a">>}

\* intNum tokens (sql_parser.py:120-124)
IntToks == {"0", "1", "2", "3"}

\* realNum tokens (sql_parser.py:115-119)
RealToks == {"1.5"}

\* sqlString tokens (sql_parser.py:127), each with the text unquote gives for it
StringToks == {<<"'x'", "x">>}

(***************************************************************************)
(* Values: a token of a ParseResults list or a value a parse action built  *)
(***************************************************************************)

\* a matched string
Tok(t) == [kind |-> "tok", op |-> t, args |-> <<>>]

\* a number decoded by ast.literal_eval
Num(t) == [kind |-> "num", op |-> t, args |-> <<>>]

\* a ParseResults list (what Group makes of the tokens of its element)
List(xs) == [kind |-> "list", op |-> "", args |-> xs]

\* Python's None
None == [kind |-> "none", op |-> "", args |-> <<>>]

\* the dict {k: v}
Dict(k, v) == [kind |-> "dict", op |-> k, args |-> <<v>>]

\* ParseResults.__getattr__ of a results name that matched nothing: ""
Empty == Tok("")

\* Python truth of a value: a non-empty list, a non-empty string
truthy(v) == IF v.kind = "list" THEN Len(v.args) > 0 ELSE IF v.kind = "tok" THEN v.op # "" ELSE v.kind # "none"

Ok(p, toks) == [ok |-> TRUE, pos |-> p, toks |-> toks]

Fail == [ok |-> FALSE, pos |-> 0, toks |-> <<>>]

(***************************************************************************)
(* Parse actions                                                           *)
(***************************************************************************)

\* the first entry of KNOWN_OPS whose op is the token: filter(...)[0]
opEntry(t) == KNOWN_OPS[CHOOSE i \in 1..Len(KNOWN_OPS) : KNOWN_OPS[i].op = t /\ \A j \in 1..(i - 1) : KNOWN_OPS[j].op # t]

\* to_json_operator with range(int(len(tok) / 2)): the last operand is left out
to_json_operator_Short(retTokens) ==
    LET tok == retTokens[1].args
        op  == opEntry(tok[2].op).name
    IN  Dict(op, List([i \in 1..(Len(tok) \div 2) |-> tok[2 * (i - 1) + 1]]))

\* retTokens[0] is the group <<operand, op, operand, op, operand, ...>>
to_json_operator(retTokens) ==
    LET tok == retTokens[1].args
        op  == opEntry(tok[2].op).name
    IN  Dict(op, List([i \in 1..((Len(tok) + 1) \div 2) |-> tok[2 * (i - 1) + 1]]))

\* to_json_call without the branch for a single parameter
to_json_call_NoUnwrap(tokop, params) ==
    LET op == lower(tokop)
    IN  IF ~truthy(params) THEN Dict(op, None) ELSE Dict(op, params)

\* tokop is tok.op, params is tok.params (Empty when nothing matched under the name)
to_json_call(tokop, params) ==
    LET op == lower(tokop)
    IN  IF ~truthy(params) THEN Dict(op, None)
        ELSE IF Len(params.args) = 1 THEN Dict(op, params.args[1])
        ELSE Dict(op, params)

\* to_case_call that puts the else expression first
to_case_call_ElseFirst(tokcase, elze) ==
    LET cases == tokcase.args
    IN  Dict("case", List(IF truthy(elze) THEN <<elze>> \o cases ELSE cases))

\* tokcase is tok.case (a list), elze is getattr(tok, "else", None)
to_case_call(tokcase, elze) ==
    LET cases == tokcase.args
    IN  Dict("case", List(IF truthy(elze) THEN Append(cases, elze) ELSE cases))

\* {"when": tok.when, "then": tok.then}
to_when_call(tokwhen, tokthen) == [kind |-> "when", op |-> "", args |-> <<tokwhen, tokthen>>]

\* {tok.op: tok.join} and, if tok.on, 'on': tok.on
to_join_call(tokop, tokjoin, tokon) == [kind |-> "join", op |-> tokop, args |-> IF truthy(tokon) THEN <<tokjoin, tokon>> ELSE <<tokjoin>>]

(***************************************************************************)
(* Terminals                                                               *)
(***************************************************************************)

Literal(lit, s, p) == p <= Len(s) /\ s[p] = lit

Keyword(k, caseless, s, p) == p <= Len(s) /\ (IF caseless THEN upper(s[p]) = upper(k) ELSE s[p] = k)

\* o['literal'] = o['type'](o['op']): Literal(op) or Keyword(op), both case-sensitive
opLiteral(o, s, p) == IF o.type = "Keyword" THEN Keyword(o.op, FALSE, s, p) ELSE Literal(o.op, s, p)

\* RESERVED = MatchFirst(reserved): the keywords, caseless, then the operators
RESERVED(s, p) ==
    \/ \E i \in 1..Len(keywords) : Keyword(keywords[i], TRUE, s, p)
    \/ \E i \in 1..Len(KNOWN_OPS) : opLiteral(KNOWN_OPS[i], s, p)

\* one segment of a dotted name: Word(alphas, alphanums + "_$") | identString
identPart(s, p) ==
    IF p > Len(s) THEN Fail
    ELSE IF s[p] \in IdentWords THEN Ok(p + 1, <<s[p]>>)
    ELSE IF \E q \in QuotedIdents : q[1] = s[p] THEN Ok(p + 1, <<(CHOOSE q \in QuotedIdents : q[1] = s[p])[2]>>)
    ELSE Fail

RECURSIVE identTail(_, _, _)
\* ZeroOrMore("." + segment) of delimitedList(..., ".", combine=True)
identTail(s, p, name) ==
    IF Literal(".", s, p)
    THEN LET r == identPart(s, p + 1)
         IN  IF r.ok THEN identTail(s, r.pos, name \o "." \o r.toks[1]) ELSE Ok(p, <<Tok(name)>>)
    ELSE Ok(p, <<Tok(name)>>)

\* Literal("*") | Combine(~RESERVED + delimitedList(Word | identString, "."))
ident(s, p) ==
    IF Literal("*", s, p) THEN Ok(p + 1, <<Tok("*")>>)
    ELSE IF RESERVED(s, p) THEN Fail
    ELSE LET r == identPart(s, p)
         IN  IF r.ok THEN identTail(s, r.pos, r.toks[1]) ELSE Fail

realNum(s, p) == IF p <= Len(s) /\ s[p] \in RealToks THEN Ok(p + 1, <<Num(s[p])>>) ELSE Fail

intNum(s, p) == IF p <= Len(s) /\ s[p] \in IntToks THEN Ok(p + 1, <<Num(s[p])>>) ELSE Fail

sqlString(s, p) ==
    IF p <= Len(s) /\ \E q \in StringToks : q[1] = s[p]
    THEN Ok(p + 1, <<[kind |-> "str", op |-> (CHOOSE q \in StringToks : q[1] = s[p])[2], args |-> <<>>]>>)
    ELSE Fail

(***************************************************************************)
(* Combinators                                                             *)
(***************************************************************************)

\* r, then K on what r matched; alt when r failed
match(r, K(_), alt) == IF r.ok THEN K(r) ELSE alt

\* MatchFirst of two alternatives: r | alt
orElse(r, alt) == IF r.ok THEN r ELSE alt

(***************************************************************************)
(* Expressions (sql_parser.py:131-165)                                     *)
(***************************************************************************)

RECURSIVE expr(_, _)
RECURSIVE infixNotation(_, _, _)
RECURSIVE infixFrom(_, _, _, _)
RECURSIVE infixLevel(_, _, _)
RECURSIVE opTerms(_, _, _, _)
RECURSIVE baseExpr(_, _)
RECURSIVE compound(_, _)
RECURSIVE exprList(_, _)
RECURSIVE exprListTail(_, _, _)
RECURSIVE whenList(_, _, _)
RECURSIVE case(_, _)
RECURSIVE functionCall(_, _)
RECURSIVE prefixCall(_, _, _)
RECURSIVE parenList(_, _)
RECURSIVE selectStmt(_, _)
RECURSIVE selectClauses(_, _)
RECURSIVE selectColumn(_, _)
RECURSIVE columnList(_, _, _)
RECURSIVE columnListTail(_, _, _, _)
RECURSIVE join(_, _)
RECURSIVE joinList(_, _, _)
RECURSIVE fromList(_, _)
RECURSIVE sortColumn(_, _)
RECURSIVE sortList(_, _)
RECURSIVE sortListTail(_, _, _)

\* ZeroOrMore("," + expr) of delimitedList(expr)
exprListTail(s, p, acc) ==
    IF Literal(",", s, p)
    THEN match(expr(s, p + 1), LAMBDA r : exprListTail(s, r.pos, acc \o r.toks), Ok(p, acc))
    ELSE Ok(p, acc)

\* delimitedList(expr)
exprList(s, p) == match(expr(s, p), LAMBDA r : exprListTail(s, r.pos, r.toks), Fail)

\* ZeroOrMore((WHEN + expr("when") + THEN + expr("then")).addParseAction(to_when_call))
whenList(s, p, acc) ==
    IF Keyword("when", TRUE, s, p)
    THEN match(expr(s, p + 1),
               LAMBDA w : IF Keyword("then", TRUE, s, w.pos)
                          THEN match(expr(s, w.pos + 1),
                                     LAMBDA t : whenList(s, t.pos, Append(acc, to_when_call(w.toks[1], t.toks[1]))),
                                     Ok(p, acc))
                          ELSE Ok(p, acc),
               Ok(p, acc))
    ELSE Ok(p, acc)

\* Optional(ELSE + expr("else")) at p
optElse(s, p) == IF Keyword("else", TRUE, s, p) THEN orElse(expr(s, p + 1), Ok(p, <<>>)) ELSE Ok(p, <<>>)

\* CASE + Group(ZeroOrMore(when))("case") + Optional(ELSE + expr("else")) + END
case(s, p) ==
    IF Keyword("case", TRUE, s, p)
    THEN match(whenList(s, p + 1, <<>>),
               LAMBDA w : match(optElse(s, w.pos),
                                LAMBDA e : IF Keyword("end", TRUE, s, e.pos)
                                           THEN Ok(e.pos + 1, <<to_case_call(List(w.toks), IF e.toks = <<>> THEN Empty ELSE e.toks[1])>>)
                                           ELSE Fail,
                                Fail),
               Fail)
    ELSE Fail

\* Optional(Group(delimitedList(expr))("params")) at p; its token is tok.params
optParams(s, p) == match(exprList(s, p), LAMBDA l : Ok(l.pos, <<List(l.toks)>>), Ok(p, <<>>))

\* Word(alphas)("op") + "(" + Optional(Group(delimitedList(expr))("params")) + ")"
functionCall(s, p) ==
    IF p <= Len(s) /\ s[p] \in AlphaWords /\ Literal("(", s, p + 1)
    THEN match(optParams(s, p + 2),
               LAMBDA l : IF Literal(")", s, l.pos)
                          THEN Ok(l.pos + 1, <<to_json_call(s[p], IF l.toks = <<>> THEN Empty ELSE l.toks[1])>>)
                          ELSE Fail,
               Fail)
    ELSE Fail

\* a prefix operator that takes one operand of the infix grammar, not an expr
prefixCall_Operand(tokop, s, p) == match(baseExpr(s, p + 1), LAMBDA r : Ok(r.pos, <<to_json_call(tokop, List(r.toks))>>), Fail)

\* a prefix operator: its token (tok.op is tokop) + expr("params"), with to_json_call
prefixCall(tokop, s, p) == match(expr(s, p + 1), LAMBDA r : Ok(r.pos, <<to_json_call(tokop, r.toks[1])>>), Fail)

\* "(" + Group(delimitedList(expr)) + ")", the parentheses suppressed
parenList(s, p) ==
    IF Literal("(", s, p)
    THEN match(exprList(s, p + 1),
               LAMBDA l : IF Literal(")", s, l.pos) THEN Ok(l.pos + 1, <<List(l.toks)>>) ELSE Fail,
               Fail)
    ELSE Fail

\* the alternatives of compound, in the order MatchFirst tries them
compound(s, p) ==
    orElse(IF Literal("-", s, p) THEN prefixCall("neg", s, p) ELSE Fail,
    orElse(IF Keyword("not", TRUE, s, p) THEN prefixCall(s[p], s, p) ELSE Fail,
    orElse(IF Keyword("distinct", TRUE, s, p) THEN prefixCall(s[p], s, p) ELSE Fail,
    orElse(case(s, p),
    orElse(selectStmt(s, p),
    orElse(parenList(s, p),
    orElse(realNum(s, p),
    orElse(intNum(s, p),
    orElse(sqlString(s, p),
    orElse(functionCall(s, p),
           ident(s, p)))))))))))

\* infixNotation's lastExpr = baseExpr | (lpar + ret + rpar), ret the loosest level
baseExpr(s, p) ==
    orElse(compound(s, p),
           IF Literal("(", s, p)
           THEN match(infixNotation(s, p + 1, Len(KNOWN_OPS)),
                      LAMBDA r : IF Literal(")", s, r.pos) THEN Ok(r.pos + 1, r.toks) ELSE Fail,
                      Fail)
           ELSE Fail)

\* OneOrMore(opExpr + lastExpr) of level i, after the first operand: acc is the
\* token list so far, p the position after it
opTerms(s, p, i, acc) ==
    IF opLiteral(KNOWN_OPS[i], s, p)
    THEN match(infixNotation(s, p + 1, i - 1),
               LAMBDA r : opTerms(s, r.pos, i, acc \o <<Tok(s[p])>> \o r.toks),
               Ok(p, acc))
    ELSE Ok(p, acc)

\* level i of infixNotation at the position where level i - 1 gave last:
\*   (FollowedBy(last + op + last) + Group(last + OneOrMore(op + last))) | last
\* with the parse action to_json_operator on the first alternative.  Both
\* alternatives start with level i - 1 at the same position, which packrat parses
\* once; the first alternative fails exactly when no (op + last) follows it.
infixLevel(s, i, last) ==
    match(opTerms(s, last.pos, i, last.toks),
          LAMBDA all : IF all.pos = last.pos THEN last
                       ELSE Ok(all.pos, <<to_json_operator(<<List(all.toks)>>)>>),
          Fail)

\* levels i..n on top of last, the result of level i - 1
infixFrom(s, i, n, last) ==
    IF ~last.ok THEN Fail
    ELSE IF i > n THEN last
    ELSE infixFrom(s, i + 1, n, infixLevel(s, i, last))

\* infixNotation(compound, [(o['literal'], 2, opAssoc.LEFT, to_json_operator) for o
\* in KNOWN_OPS]), cut at level n: one level per entry of KNOWN_OPS, the first
\* entry the tightest
infixNotation(s, p, n) == infixFrom(s, 1, n, baseExpr(s, p))

\* expr << Group(infixNotation(...))
expr(s, p) == match(infixNotation(s, p, Len(KNOWN_OPS)), LAMBDA r : Ok(r.pos, <<List(r.toks)>>), Fail)

(***************************************************************************)
(* Clauses and the statement (sql_parser.py:167-195)                       *)
(***************************************************************************)

\* Optional(AS) at p: the position after it and its token
optAS(s, p) == IF Keyword("as", TRUE, s, p) THEN Ok(p + 1, <<Tok("as")>>) ELSE Ok(p, <<>>)

\* Optional(Optional(AS) + ident("name")) at p
optAlias(s, p) ==
    match(optAS(s, p),
          LAMBDA a : match(ident(s, a.pos), LAMBDA n : Ok(n.pos, a.toks \o n.toks), Ok(p, <<>>)),
          Fail)

\* Group(Group(expr)("value") + Optional(Optional(AS) + ident("name")) | Literal('*')("value"))
selectColumn(s, p) ==
    match(expr(s, p),
          LAMBDA e : match(optAlias(s, e.pos), LAMBDA n : Ok(n.pos, <<List(<<List(e.toks)>> \o n.toks)>>), Fail),
          IF Literal("*", s, p) THEN Ok(p + 1, <<List(<<Tok("*")>>)>>) ELSE Fail)

\* ident("value") + Optional(AS) + ident("name") | ident
tableName(s, p) ==
    match(ident(s, p),
          LAMBDA v : match(optAS(s, v.pos),
                           LAMBDA a : match(ident(s, a.pos), LAMBDA n : Ok(n.pos, v.toks \o a.toks \o n.toks), v),
                           Fail),
          Fail)

\* Optional(ON + expr("on")) at p
optOn(s, p) == IF Keyword("on", TRUE, s, p) THEN orElse(expr(s, p + 1), Ok(p, <<>>)) ELSE Ok(p, <<>>)

\* (CROSSJOIN | INNERJOIN | JOIN)("op") + tableName("join") + Optional(ON + expr("on"))
join(s, p) ==
    IF Keyword("cross join", TRUE, s, p) \/ Keyword("inner join", TRUE, s, p) \/ Keyword("join", TRUE, s, p)
    THEN match(tableName(s, p + 1),
               LAMBDA t : match(optOn(s, t.pos),
                                LAMBDA o : Ok(o.pos, <<to_join_call(lower(s[p]), List(t.toks), IF o.toks = <<>> THEN Empty ELSE o.toks[1])>>),
                                Fail),
               Fail)
    ELSE Fail

\* expr("value") + Optional(DESC("sort")) | expr("value")
sortColumn(s, p) ==
    match(expr(s, p),
          LAMBDA e : IF Keyword("desc", TRUE, s, e.pos) THEN Ok(e.pos + 1, e.toks \o <<Tok("desc")>>) ELSE e,
          Fail)

\* ZeroOrMore("," + column) of a delimitedList; grouped is TRUE for Group(column)
columnListTail(s, p, acc, grouped) ==
    IF Literal(",", s, p)
    THEN match(selectColumn(s, p + 1),
               LAMBDA r : columnListTail(s, r.pos, acc \o (IF grouped THEN <<List(r.toks)>> ELSE r.toks), grouped),
               Ok(p, acc))
    ELSE Ok(p, acc)

\* delimitedList(selectColumn), and delimitedList(Group(selectColumn)) when grouped
columnList(s, p, grouped) ==
    match(selectColumn(s, p),
          LAMBDA r : columnListTail(s, r.pos, IF grouped THEN <<List(r.toks)>> ELSE r.toks, grouped),
          Fail)

RECURSIVE tableListTail(_, _, _)
\* ZeroOrMore("," + Group(tableName))
tableListTail(s, p, acc) ==
    IF Literal(",", s, p)
    THEN match(tableName(s, p + 1), LAMBDA r : tableListTail(s, r.pos, Append(acc, List(r.toks))), Ok(p, acc))
    ELSE Ok(p, acc)

\* ZeroOrMore(join)
joinList(s, p, acc) == match(join(s, p), LAMBDA j : joinList(s, j.pos, acc \o j.toks), Ok(p, acc))

\* delimitedList(Group(tableName)) + ZeroOrMore(join)
fromList(s, p) ==
    match(tableName(s, p),
          LAMBDA r : match(tableListTail(s, r.pos, <<List(r.toks)>>), LAMBDA l : joinList(s, l.pos, l.toks), Fail),
          Fail)

\* ZeroOrMore("," + Group(sortColumn))
sortListTail(s, p, acc) ==
    IF Literal(",", s, p)
    THEN match(sortColumn(s, p + 1), LAMBDA r : sortListTail(s, r.pos, Append(acc, List(r.toks))), Ok(p, acc))
    ELSE Ok(p, acc)

\* delimitedList(Group(sortColumn))
sortList(s, p) == match(sortColumn(s, p), LAMBDA r : sortListTail(s, r.pos, <<List(r.toks)>>), Fail)

\* Optional(kw.suppress() + body): body is the parse of the clause body at p + 1
optClause(kw, s, p, body) == IF Keyword(kw, TRUE, s, p) THEN orElse(body, Ok(p, <<>>)) ELSE Ok(p, <<>>)

\* a parse that failed: no value
NoResult == [ok |-> FALSE, pos |-> 0, select |-> <<>>, from |-> <<>>, where |-> <<>>, groupby |-> <<>>, having |-> <<>>, orderby |-> <<>>]

\* selectClauses with the HAVING clause tried before the GROUP BY clause
selectClauses_HavingFirst(s, p) ==
    IF Keyword("select", TRUE, s, p)
    THEN match(columnList(s, p + 1, FALSE), LAMBDA c :
         match(optClause("from", s, c.pos, fromList(s, c.pos + 1)), LAMBDA f :
         match(optClause("where", s, f.pos, expr(s, f.pos + 1)), LAMBDA w :
         match(optClause("having", s, w.pos, expr(s, w.pos + 1)), LAMBDA h :
         match(optClause("group by", s, h.pos, columnList(s, h.pos + 1, TRUE)), LAMBDA g :
         match(optClause("order by", s, g.pos, sortList(s, g.pos + 1)), LAMBDA o :
               [ok |-> TRUE, pos |-> o.pos, select |-> c.toks, from |-> f.toks, where |-> w.toks,
                groupby |-> g.toks, having |-> h.toks, orderby |-> o.toks],
         NoResult), NoResult), NoResult), NoResult), NoResult), NoResult)
    ELSE NoResult

\* the statement with its results names: SELECT + delimitedList(selectColumn)("select")
\* + Optional(Optional(FROM ...)("from") + Optional(WHERE ...)("where") +
\* Optional(GROUPBY ...) + Optional(HAVING ...) + Optional(ORDERBY ...))
selectClauses(s, p) ==
    IF Keyword("select", TRUE, s, p)
    THEN match(columnList(s, p + 1, FALSE), LAMBDA c :
         match(optClause("from", s, c.pos, fromList(s, c.pos + 1)), LAMBDA f :
         match(optClause("where", s, f.pos, expr(s, f.pos + 1)), LAMBDA w :
         match(optClause("group by", s, w.pos, columnList(s, w.pos + 1, TRUE)), LAMBDA g :
         match(optClause("having", s, g.pos, expr(s, g.pos + 1)), LAMBDA h :
         match(optClause("order by", s, h.pos, sortList(s, h.pos + 1)), LAMBDA o :
               [ok |-> TRUE, pos |-> o.pos, select |-> c.toks, from |-> f.toks, where |-> w.toks,
                groupby |-> g.toks, having |-> h.toks, orderby |-> o.toks],
         NoResult), NoResult), NoResult), NoResult), NoResult), NoResult)
    ELSE NoResult

\* selectStmt as an element of compound: its tokens in order
selectStmt(s, p) ==
    match(selectClauses(s, p),
          LAMBDA r : Ok(r.pos, r.select \o r.from \o r.where \o r.groupby \o r.having \o r.orderby),
          Fail)

\* SQLParser = selectStmt, applied at the start of the input
SQLParser(s) == selectClauses(s, 1)

(***************************************************************************)
(* The inputs of the parser                                                *)
(***************************************************************************)

\* most infix operators in one expression
MaxOps == 2

\* most arguments of one function call
MaxArgs == 3

\* most WHEN ... THEN pairs of one CASE
MaxWhen == 2

\* most clauses after the select list
MaxClauses == 5

\* the operand at each operand position of an expression
Operands == <<"a", "b", "c", "d", "t", "u">>

OpTokens == {KNOWN_OPS[i].op : i \in 1..Len(KNOWN_OPS)}

PrefixTokens == {"-", "not", "distinct", "NOT"}

ClauseKeywords == <<"from", "where", "group by", "having", "order by">>

RECURSIVE exprTokens(_, _, _, _)
\* operand i onwards of the expression with the operators ops, with the prefix
\* operator pre before operand k (k = 0: no prefix; the first or the second operand)
exprTokens(ops, k, pre, i) ==
    (IF i = k THEN <<pre>> ELSE <<>>) \o <<Operands[i]>> \o
    (IF i <= Len(ops) THEN <<ops[i]>> \o exprTokens(ops, k, pre, i + 1) ELSE <<>>)

OpSeqs == UNION {[1..n -> OpTokens] : n \in 1..MaxOps}

\* select <expression>
ExprInputs == {<<"select">> \o exprTokens(ops, k, pre, 1) : ops \in OpSeqs, k \in 0..2, pre \in PrefixTokens}

RECURSIVE joinTokens(_, _)
\* the token lists xs[1], xs[2], ... with sep before each of them
joinTokens(xs, sep) == IF xs = <<>> THEN <<>> ELSE sep \o Head(xs) \o joinTokens(Tail(xs), sep)

ArgExprs == {<<"a">>, <<"1">>, <<"b", "+", "c">>, <<"f", "(", ")">>}

ArgSeqs == UNION {[1..k -> ArgExprs] : k \in 0..MaxArgs}

FunctionNames == {"f", "F"}

\* select fn ( <arguments> )
callTokens(fn, args) == <<"select", fn, "(">> \o (IF args = <<>> THEN <<>> ELSE Tail(joinTokens(args, <<",">>))) \o <<")">>

CallInputs == {callTokens(fn, args) : fn \in FunctionNames, args \in ArgSeqs}

WhenPairs == {<<"when", w, "then", t>> : w \in {"a", "b"}, t \in {"1", "0"}}

WhenSeqs == UNION {[1..n -> WhenPairs] : n \in 0..MaxWhen}

ElseParts == {<<>>, <<"else", "c">>, <<"else", "0">>}

\* select case <when ... then ...>* [else ...] end
caseTokens(ws, e) == <<"select", "case">> \o joinTokens(ws, <<>>) \o e \o <<"end">>

CaseInputs == {caseTokens(ws, e) : ws \in WhenSeqs, e \in ElseParts}

ClauseSeqs == UNION {[1..n -> 1..Len(ClauseKeywords)] : n \in 0..MaxClauses}

RECURSIVE clauseTokens(_, _)
\* the clauses ks[i], ks[i + 1], ..., each its keyword and the body "a"
clauseTokens(ks, i) == IF i > Len(ks) THEN <<>> ELSE <<ClauseKeywords[ks[i]], "a">> \o clauseTokens(ks, i + 1)

\* select a <clause>*
ClauseInputs == {<<"select", "a">> \o clauseTokens(ks, 1) : ks \in ClauseSeqs}

NameTokens == IdentWords \cup {q[1] : q \in QuotedIdents}

\* select <name> from t, select <name> . a from t, select a . <name> from t
NameInputs == {<<"select", w, "from", "t">> : w \in NameTokens}
                  \cup {<<"select", w, ".", "a", "from", "t">> : w \in NameTokens}
                  \cup {<<"select", "a", ".", w, "from", "t">> : w \in NameTokens}
                  \cup {<<"select", "from", "from", "from">>, <<"SELECT", "a", "WHERE", "b", "ORDER BY", "c">>}

\* some whole statements
StatementInputs == {
    <<"select", "a", ",", "b", "from", "t", "where", "a", ">", "1", "order by", "b", "desc">>,
    <<"select", "a", "as", "b", ",", "*", "from", "t", "u", ",", "t1", "join", "a", "on", "b", "=", "c", "group by", "c", "having", "d", "order by", "a", "desc", ",", "b">>,
    <<"select", "(", "select", "1", ")">>,
    <<"select", "a", "in", "(", "1", ",", "2", ")", "from", "t", "inner join", "u">>,
    <<"select", "(", "a", "+", "b", ")", "*", "1.5", ",", "'x'">>,
    <<"select", "a", "AND", "b">>,
    <<"select", "a", "+">>,
    <<"select">> }

Inputs == ExprInputs \cup CallInputs \cup CaseInputs \cup ClauseInputs \cup NameInputs \cup StatementInputs

(***************************************************************************)
(* The parser as a state machine: one call of SQLParser on one input       *)
(***************************************************************************)

Init ==
    /\ input \in Inputs
    /\ result = NoResult
    /\ pc = "start"
    /\ val = <<>> /\ un = <<>> /\ cache = {} /\ thr = <<>>

\* SQLParser.parseString(input)
Parse ==
    /\ pc = "start"
    /\ result' = SQLParser(input)
    /\ pc' = "done"
    /\ UNCHANGED <<input, val, un, cache, thr>>

Next == Parse

Spec == Init /\ [][Next]_vars

(***************************************************************************)
(* Quoted literals, character by character (sql_parser.py:99-109, 127-128) *)
(*                                                                         *)
(* A text is a sequence of characters.  sqlString and identString match a  *)
(* regular expression at the start of the text and pass the matched token  *)
(* to unquote.                                                             *)
(***************************************************************************)

\* the characters of a text: the two quotes, the backslash and two plain ones
Chars == {"'", "\"", "\\", "c", "d"}

\* most characters of a text
MaxText == 6

RECURSIVE regexBody(_, _, _)
\* (qq|\\.|[^q])*q from position i of s, the alternatives tried in this order
\* before the star is left, backtracking as re does: the position of the closing
\* quote of the match, 0 when there is none
regexBody(s, q, i) ==
    IF i > Len(s) THEN 0
    ELSE LET doubled == IF i + 1 <= Len(s) /\ s[i] = q /\ s[i + 1] = q THEN regexBody(s, q, i + 2) ELSE 0
             escaped == IF i + 1 <= Len(s) /\ s[i] = "\\" THEN regexBody(s, q, i + 2) ELSE 0
             other   == IF s[i] # q THEN regexBody(s, q, i + 1) ELSE 0
         IN  IF doubled # 0 THEN doubled
             ELSE IF escaped # 0 THEN escaped
             ELSE IF other # 0 THEN other
             ELSE IF s[i] = q THEN i ELSE 0

\* Regex(r"\'(\'\'|\\.|[^'])*\'") for q the single quote, Regex(r'\"(\"\"|\\.|[^"])*\"')
\* for q the double quote, at the start of s: the length of the match, 0 for none
regexMatch(s, q) == IF Len(s) >= 1 /\ s[1] = q THEN regexBody(s, q, 2) ELSE 0

RECURSIVE replace(_, _)
\* s.replace(q + q, "\\" + q): the occurrences from the left, not overlapping
replace(s, q) ==
    IF Len(s) < 2 THEN s
    ELSE IF s[1] = q /\ s[2] = q THEN <<"\\", q>> \o replace(SubSeq(s, 3, Len(s)), q)
    ELSE <<s[1]>> \o replace(Tail(s), q)

\* a SyntaxError of ast.literal_eval
EvalError == [ok |-> FALSE, text |-> <<>>, pos |-> 0]

\* the text of backslash + c in a Python string literal: the escapes of the
\* quotes and of the backslash; backslash + a plain character is kept as it is
escape(c) == IF c \in {"'", "\"", "\\"} THEN <<c>> ELSE <<"\\", c>>

RECURSIVE pyShort(_, _, _, _)
\* the rest of a Python string literal opened by one quote Q, from position i
pyShort(s, Q, i, acc) ==
    IF i > Len(s) THEN EvalError
    ELSE IF s[i] = "\\" THEN (IF i + 1 > Len(s) THEN EvalError ELSE pyShort(s, Q, i + 2, acc \o escape(s[i + 1])))
    ELSE IF s[i] = Q THEN [ok |-> TRUE, text |-> acc, pos |-> i + 1]
    ELSE pyShort(s, Q, i + 1, Append(acc, s[i]))

RECURSIVE pyLong(_, _, _, _)
\* the rest of a Python string literal opened by three quotes Q, from position i
pyLong(s, Q, i, acc) ==
    IF i > Len(s) THEN EvalError
    ELSE IF s[i] = "\\" THEN (IF i + 1 > Len(s) THEN EvalError ELSE pyLong(s, Q, i + 2, acc \o escape(s[i + 1])))
    ELSE IF i + 2 <= Len(s) /\ s[i] = Q /\ s[i + 1] = Q /\ s[i + 2] = Q THEN [ok |-> TRUE, text |-> acc, pos |-> i + 3]
    ELSE pyLong(s, Q, i + 1, Append(acc, s[i]))

RECURSIVE pyStrings(_, _, _)
\* string literals one after the other from position i: Python joins them
pyStrings(s, i, acc) ==
    IF i > Len(s) THEN [ok |-> TRUE, text |-> acc, pos |-> i]
    ELSE IF s[i] \notin {"'", "\""} THEN EvalError
    ELSE LET r == IF i + 2 <= Len(s) /\ s[i + 1] = s[i] /\ s[i + 2] = s[i]
                  THEN pyLong(s, s[i], i + 3, <<>>)
                  ELSE pyShort(s, s[i], i + 1, <<>>)
         IN  IF r.ok THEN pyStrings(s, r.pos, acc \o r.text) ELSE EvalError

\* ast.literal_eval of the source text of a string
literal_eval(s) == pyStrings(s, 1, <<>>)

\* unquote(instring, tokensStart, retTokens) with v = retTokens[0]
unquote(v) ==
    IF v[1] = "'" /\ v[Len(v)] = "'"
    THEN literal_eval(<<"'">> \o replace(SubSeq(v, 2, Len(v) - 1), "'") \o <<"'">>)
    ELSE IF v[1] = "\"" /\ v[Len(v)] = "\""
    THEN literal_eval(<<"\"">> \o replace(SubSeq(v, 2, Len(v) - 1), "\"") \o <<"\"">>)
    ELSE literal_eval(v)

\* the texts that start with a quote
Texts == UNION {{<<q>> \o r : q \in {"'", "\""}, r \in [1..n -> Chars]} : n \in 0..(MaxText - 1)}

NoValue == [ok |-> FALSE, text |-> <<>>, pos |-> 0]

InitUnquote ==
    /\ val \in Texts
    /\ un = NoValue
    /\ pc = "text"
    /\ input = <<>> /\ result = NoResult /\ cache = {} /\ thr = <<>>

\* sqlString or identString at the start of the text: the token is the match
MatchLiteral ==
    /\ pc = "text"
    /\ regexMatch(val, val[1]) > 0
    /\ val' = SubSeq(val, 1, regexMatch(val, val[1]))
    /\ pc' = "token"
    /\ UNCHANGED <<input, result, un, cache, thr>>

\* neither regular expression matches: no literal at this position
NoLiteral ==
    /\ pc = "text"
    /\ regexMatch(val, val[1]) = 0
    /\ pc' = "nomatch"
    /\ UNCHANGED <<input, result, val, un, cache, thr>>

\* the parse action of the literal
Unquote ==
    /\ pc = "token"
    /\ un' = unquote(val)
    /\ pc' = "unquoted"
    /\ UNCHANGED <<input, result, val, cache, thr>>

NextUnquote == MatchLiteral \/ NoLiteral \/ Unquote

SpecUnquote == InitUnquote /\ [][NextUnquote]_vars

(***************************************************************************)
(* Packrat memoization (sql_parser.py:20)                                  *)
(*                                                                         *)
(* ParserElement.enablePackrat() is called once, on the class, when the    *)
(* module is imported: from then on every parser element of the process    *)
(* parses through one cache, a table of the class keyed by (element,       *)
(* instring, loc).  parseString empties the table (resetCache) and then    *)
(* parses; nothing in the module takes a lock around a call.  The model    *)
(* keeps the entries of the element expr, with the thread that wrote each. *)
(***************************************************************************)

\* the threads that call the parser
Threads == {"t1", "t2"}

\* the statements the threads parse
PackratInputs == {<<"select", "a">>, <<"select", "b", "+", "c">>, <<"select", "a", "from", "t">>}

Idle == [pc |-> "idle", instring |-> <<>>, loc |-> 0, res |-> NoResult]

\* the entry of expr at (instring, loc) in the cache, if there is one
cached(s, loc) == {e \in cache : e.instring = s /\ e.loc = loc}

InitPackrat ==
    /\ cache = {}
    /\ thr = [t \in Threads |-> Idle]
    /\ input = <<>> /\ result = NoResult /\ pc = "threads" /\ val = <<>> /\ un = <<>>

\* thread t calls SQLParser.parseString(s): ParserElement.resetCache(), then the parse
parseString(t, s) ==
    /\ thr[t].pc = "idle"
    /\ cache' = {}
    /\ thr' = [thr EXCEPT ![t] = [pc |-> "parsing", instring |-> s, loc |-> 2, res |-> NoResult]]
    /\ UNCHANGED <<input, result, pc, val, un>>

\* thread t parses expr at its position through the cache (_parseCache): the
\* entry of (instring, loc) is used when the table has it, and written when not
parseCache(t) ==
    /\ thr[t].pc = "parsing"
    /\ thr[t].loc <= Len(thr[t].instring)
    /\ cache' = IF cached(thr[t].instring, thr[t].loc) # {} THEN cache
                ELSE cache \cup {[instring |-> thr[t].instring, loc |-> thr[t].loc,
                                  value |-> expr(thr[t].instring, thr[t].loc).ok, by |-> t]}
    /\ thr' = [thr EXCEPT ![t].loc = @ + 1]
    /\ UNCHANGED <<input, result, pc, val, un>>

\* the call of thread t returns
parseDone(t) ==
    /\ thr[t].pc = "parsing"
    /\ thr[t].loc > Len(thr[t].instring)
    /\ thr' = [thr EXCEPT ![t].pc = "done", ![t].res = SQLParser(thr[t].instring)]
    /\ UNCHANGED <<input, result, pc, val, un, cache>>

NextPackrat ==
    \/ \E t \in Threads, s \in PackratInputs : parseString(t, s)
    \/ \E t \in Threads : parseCache(t)
    \/ \E t \in Threads : parseDone(t)

SpecPackrat == InitPackrat /\ [][NextPackrat]_vars

(***************************************************************************)
(* Properties of the parser (specification Spec)                           *)
(***************************************************************************)

Done == pc = "done"

\* the grammar matched the whole input (parseString with parseAll)
Accepted == Done /\ result.ok /\ result.pos = Len(input) + 1

\* the token of the expr of the first select column: the group of its one node
columnValue(r) == r.select[1].args[1].args[1]

\* the node of the expression of the first select column
exprNode(r) == columnValue(r).args[1]

OperandSet == {Operands[i] : i \in 1..Len(Operands)}

\* select x1 op1 x2 op2 ... xn: plain operands joined by infix operators
InfixShape(s) ==
    /\ Len(s) >= 4 /\ Len(s) % 2 = 0 /\ s[1] = "select"
    /\ \A i \in 2..Len(s) : IF i % 2 = 0 THEN s[i] \in OperandSet ELSE s[i] \in OpTokens

\* the name of the node of an operator token
nameOf(t) == opEntry(t).name

OpNames == {"mult", "div", "add", "sub", "eq", "neq", "gt", "lt", "gte", "lte", "in", "and", "or"}

\* the precedence band of a node name, 1 the tightest
bandOfName(nm) ==
    CASE nm \in {"mult", "div"} -> 1
      [] nm \in {"add", "sub"} -> 2
      [] nm \in {"eq", "neq", "gt", "lt", "gte", "lte"} -> 3
      [] nm = "in" -> 4
      [] nm = "and" -> 5
      [] nm = "or" -> 6

band(t) == bandOfName(nameOf(t))

isOpNode(n) == n.kind = "dict" /\ n.op \in OpNames

\* the node op(x, y, ...)
opNode(t, xs) == Dict(nameOf(t), List(xs))

RECURSIVE bandsNested(_)
\* no operator node has an operand that is a node of a looser band
bandsNested(n) ==
    /\ \A i \in 1..Len(n.args) : bandsNested(n.args[i])
    /\ isOpNode(n) => \A i \in 1..Len(n.args[1].args) :
           isOpNode(n.args[1].args[i]) => bandOfName(n.args[1].args[i].op) <= bandOfName(n.op)

RECURSIVE wideOps(_)
\* every operator node in n has a list of at least 2 operands
wideOps(n) ==
    /\ isOpNode(n) => n.args[1].kind = "list" /\ Len(n.args[1].args) >= 2
    /\ \A i \in 1..Len(n.args) : wideOps(n.args[i])

allTokens(r) == r.select \o r.from \o r.where \o r.groupby \o r.having \o r.orderby

\* C1: an expression of plain operands and infix operators is accepted, no
\* operator node in its tree has an operand node of a looser band, and with two
\* operators of different bands the node of the tighter one is an operand of the
\* node of the looser one, whichever comes first in the input.
C1_PrecedenceBands ==
    Done /\ InfixShape(input) =>
        /\ Accepted
        /\ bandsNested(exprNode(result))
        /\ Len(input) = 6 /\ band(input[3]) # band(input[5]) =>
               exprNode(result) =
                   IF band(input[3]) < band(input[5])
                   THEN opNode(input[5], <<opNode(input[3], <<Tok(input[2]), Tok(input[4])>>), Tok(input[6])>>)
                   ELSE opNode(input[3], <<Tok(input[2]), opNode(input[5], <<Tok(input[4]), Tok(input[6])>>)>>)

\* a + b * c was parsed to add(a, mult(b, c))
C1_Witness ==
    /\ Done /\ input = <<"select", "a", "+", "b", "*", "c">>
    /\ exprNode(result) = Dict("add", List(<<Tok("a"), Dict("mult", List(<<Tok("b"), Tok("c")>>))>>))

\* the operands of an expression of InfixShape, in source order
operandsOf(s) == [i \in 1..(Len(s) \div 2) |-> Tok(s[2 * i])]

SameOpChain(s) == InfixShape(s) /\ \A i \in 3..Len(s) : i % 2 = 1 => s[i] = s[3]

\* C2: a chain of operands joined by one and the same operator token becomes
\* exactly one operator node that lists all the operands in source order, and
\* every operator node of every result has at least 2 operands.
C2_ChainsFlatten ==
    Done =>
        /\ \A i \in 1..Len(allTokens(result)) : wideOps(allTokens(result)[i])
        /\ SameOpChain(input) => Accepted /\ exprNode(result) = opNode(input[3], operandsOf(input))

\* a and b and c was parsed to and(a, b, c)
C2_Witness ==
    /\ Done /\ input = <<"select", "a", "and", "b", "and", "c">>
    /\ exprNode(result) = Dict("and", List(<<Tok("a"), Tok("b"), Tok("c")>>))

\* C3: with two different operators of one band, op1 then op2, the node of op2
\* has the node of op1 as its first operand: x op1 y op2 z is op2(op1(x, y), z).
C3_LeftAssociative ==
    Done /\ InfixShape(input) /\ Len(input) = 6 /\ input[3] # input[5] /\ band(input[3]) = band(input[5]) =>
        exprNode(result) = opNode(input[5], <<opNode(input[3], <<Tok(input[2]), Tok(input[4])>>), Tok(input[6])>>)

\* the name of the node of a prefix operator token
prefixName(t) == IF t = "-" THEN "neg" ELSE lower(t)

\* select pre x1 op1 x2 ...
PrefixFirst(s) == Len(s) >= 5 /\ s[2] \in PrefixTokens /\ InfixShape(<<"select">> \o SubSeq(s, 3, Len(s)))

\* select x1 op1 pre x2 [op2 x3]
PrefixSecond(s) ==
    /\ Len(s) \in {5, 7} /\ s[1] = "select" /\ s[2] \in OperandSet /\ s[3] \in OpTokens
    /\ s[4] \in PrefixTokens /\ s[5] \in OperandSet
    /\ Len(s) = 7 => s[6] \in OpTokens /\ s[7] \in OperandSet

\* C10: a prefix operator takes the whole expression to its right as its one
\* operand: pre x op y ... is pre(e) with e the node of x op y ..., in particular
\* pre x op y is pre(op(x, y)); and x op1 pre y op2 z is op1(x, pre(op2(y, z))).
C10_PrefixTakesAll ==
    /\ Done /\ PrefixFirst(input) =>
           /\ Accepted
           /\ exprNode(result) = Dict(prefixName(input[2]), exprNode(SQLParser(<<"select">> \o SubSeq(input, 3, Len(input)))))
           /\ Len(input) = 5 =>
                  exprNode(result) = Dict(prefixName(input[2]), opNode(input[4], <<Tok(input[3]), Tok(input[5])>>))
    /\ Done /\ PrefixSecond(input) =>
           /\ Accepted
           /\ exprNode(result) =
                  opNode(input[3], <<Tok(input[2]),
                         Dict(prefixName(input[4]),
                              IF Len(input) = 5 THEN Tok(input[5])
                              ELSE opNode(input[6], <<Tok(input[5]), Tok(input[7])>>))>>)

\* not a and b was parsed to not(and(a, b))
C10_Witness ==
    /\ Done /\ input = <<"select", "not", "a", "and", "b">>
    /\ exprNode(result) = Dict("not", Dict("and", List(<<Tok("a"), Tok("b")>>)))

\* the node an argument expression gives when it is parsed on its own
argNode(a) == columnValue(SQLParser(<<"select">> \o a))

operandNode(t) == List(<<IF t \in IntToks THEN Num(t) ELSE Tok(t)>>)

\* the {when, then} pair of the tokens <<"when", x, "then", y>>
whenNode(w) == [kind |-> "when", op |-> "", args |-> <<operandNode(w[2]), operandNode(w[4])>>]

\* C7: CASE with n WHEN x THEN y pairs and an optional ELSE z is accepted and
\* yields the case node whose value is the list of the n pair nodes in source
\* order, followed by the else expression as the last element exactly when an
\* ELSE is present.
C7_CaseNode ==
    Done /\ Len(input) >= 3 /\ input[2] = "case" =>
        \A ws \in WhenSeqs, e \in ElseParts :
            input = caseTokens(ws, e) =>
                /\ Accepted
                /\ exprNode(result) =
                       Dict("case", List([i \in 1..Len(ws) |-> whenNode(ws[i])]
                                         \o (IF e = <<>> THEN <<>> ELSE <<operandNode(e[2])>>)))

\* case when a then 1 when b then 0 else c end: two pairs, then the else expression
C7_Witness ==
    /\ Done /\ input = <<"select", "case", "when", "a", "then", "1", "when", "b", "then", "0", "else", "c", "end">>
    /\ Len(exprNode(result).args[1].args) = 3
    /\ exprNode(result).args[1].args[1].kind = "when"
    /\ exprNode(result).args[1].args[3] = List(<<Tok("c")>>)

\* select a <keyword> a <keyword> a ...: the clause keywords in any order
ClauseShape(s) ==
    /\ Len(s) >= 2 /\ Len(s) % 2 = 0 /\ s[1] = "select"
    /\ \A i \in 2..Len(s) : IF i % 2 = 0 THEN s[i] = "a" ELSE \E k \in 1..Len(ClauseKeywords) : s[i] = ClauseKeywords[k]

\* the place of a clause keyword in FROM, WHERE, GROUP BY, HAVING, ORDER BY
clauseIndex(kw) == CHOOSE k \in 1..Len(ClauseKeywords) : ClauseKeywords[k] = kw

\* the clause keywords of an input of ClauseShape, as their places
clausesOf(s) == [i \in 1..((Len(s) - 2) \div 2) |-> clauseIndex(s[2 * i + 1])]

increasing(ks) == \A i \in 1..(Len(ks) - 1) : ks[i] < ks[i + 1]

present(ks, k) == \E i \in 1..Len(ks) : ks[i] = k

\* C4 as stated: an accepted statement with clauses after the select list starts
\* them with FROM (the later clauses are admitted only once FROM is present).
C4_FromFirst ==
    Done /\ ClauseShape(input) /\ Len(input) > 2 /\ Accepted => input[3] = "from"

\* C4, amended: a statement of clauses is accepted exactly when its clause
\* keywords are in the order FROM, WHERE, GROUP BY, HAVING, ORDER BY with none
\* repeated, each of the five being optional on its own (FROM too); the parser
\* never reads past a clause that is out of order, and an accepted statement has
\* exactly the clauses of the input.
C4_ClauseOrder ==
    Done /\ ClauseShape(input) =>
        LET ks == clausesOf(input)
        IN  /\ Accepted <=> increasing(ks)
            /\ result.ok
            /\ \A i \in 1..(Len(ks) - 1) : ks[i] >= ks[i + 1] => result.pos <= 2 * i + 3
            /\ Accepted =>
                   /\ (result.from # <<>>) <=> present(ks, 1)
                   /\ (result.where # <<>>) <=> present(ks, 2)
                   /\ (result.groupby # <<>>) <=> present(ks, 3)
                   /\ (result.having # <<>>) <=> present(ks, 4)
                   /\ (result.orderby # <<>>) <=> present(ks, 5)

\* select a where a group by a (no FROM) was accepted, and the parse of
\* select a order by a where a stopped before WHERE
C4_Witness ==
    /\ Done /\ input = <<"select", "a", "order by", "a", "where", "a">>
    /\ result.ok /\ result.pos = 5 /\ ~Accepted
    /\ SQLParser(<<"select", "a", "where", "a", "group by", "a">>).pos = 7

ReservedWords == {keywords[i] : i \in 1..Len(keywords)} \cup {"in", "and", "or"}

\* select w from t and select w . a from t
NameFirst(s) ==
    /\ Len(s) \in {4, 6} /\ s[1] = "select" /\ s[2] \in IdentWords
    /\ SubSeq(s, 3, Len(s)) \in {<<"from", "t">>, <<".", "a", "from", "t">>}

\* C5: an unquoted name whose first segment is, in any letter case, a reserved
\* keyword or a word operator is never accepted as an identifier.
C5_ReservedNeverIdent ==
    Done /\ NameFirst(input) /\ lower(input[2]) \in ReservedWords => ~Accepted

(***************************************************************************)
(* Properties of quoted literals (specification SpecUnquote)               *)
(***************************************************************************)

\* the characters between the delimiters of a token
content(v) == SubSeq(v, 2, Len(v) - 1)

RECURSIVE decoded(_, _)
\* the content of a literal read from the left as the regular expression reads
\* it: a doubled quote is one quote, a backslash and the character after it are
\* what the pair stands for, every other character is itself
decoded(c, q) ==
    IF c = <<>> THEN <<>>
    ELSE IF Len(c) >= 2 /\ c[1] = q /\ c[2] = q THEN <<q>> \o decoded(SubSeq(c, 3, Len(c)), q)
    ELSE IF Len(c) >= 2 /\ c[1] = "\\" THEN escape(c[2]) \o decoded(SubSeq(c, 3, Len(c)), q)
    ELSE <<c[1]>> \o decoded(Tail(c), q)

\* C8: for every literal that unquote decodes, the text is the content with the
\* delimiters removed, each doubled quote of the delimiter's kind decoded to
\* exactly one quote, and every other character unchanged.
C8_DoubledQuoteDecodes ==
    pc = "unquoted" /\ un.ok => un.text = decoded(content(val), val[1])

\* C8 for the literals without a backslash: there the decoding never fails and
\* each doubled quote is one quote
C8_NoBackslash ==
    pc = "unquoted" /\ (\A i \in 1..Len(val) : val[i] # "\\") =>
        un.ok /\ un.text = decoded(content(val), val[1])

(***************************************************************************)
(* Properties of the cache (specification SpecPackrat)                     *)
(***************************************************************************)

\* C9: the cache is local to one parse call and never shared between concurrent
\* calls: while a call is parsing, every entry of the cache was written by that
\* call.
C9_CacheLocal ==
    \A t \in Threads : thr[t].pc = "parsing" => \A e \in cache : e.by = t

\* C9, the entries kept: a call that has parsed up to loc still finds in the
\* cache what it wrote on the way (no other call empties the table under it).
C9_CacheKept ==
    \A t \in Threads : thr[t].pc = "parsing" =>
        \A l \in 2..(thr[t].loc - 1) : cached(thr[t].instring, l) # {}

====
